---- MODULE Spec2Model ----
(***************************************************************************)
(* A model of msg_generate.go: the generator that walks the RR struct      *)
(* types of package dns and emits, for each of them, a pack and an unpack  *)
(* method driven by the struct tags.  The emitted source text is modelled  *)
(* as a sequence of statements; a second specification executes the        *)
(* emitted statements on record instances and wire data.                   *)
(***************************************************************************)
EXTENDS Integers, Sequences, FiniteSets, TLC

Nil == [k |-> "nil"]

\* ------------------------------------------------------------------------
\* strings (package strings), on TLA+ strings
\* ------------------------------------------------------------------------
HasPrefix(s, p) == Len(s) >= Len(p) /\ SubSeq(s, 1, Len(p)) = p

HasSuffix(s, p) == Len(s) >= Len(p) /\ SubSeq(s, Len(s) - Len(p) + 1, Len(s)) = p

TrimPrefix(s, p) == IF HasPrefix(s, p) THEN SubSeq(s, Len(p) + 1, Len(s)) ELSE s

TrimSuffix(s, p) == IF HasSuffix(s, p) THEN SubSeq(s, 1, Len(s) - Len(p)) ELSE s

\* 0-based index of the last occurrence of the one-character string c, or -1
LastIndex(s, c) ==
    LET hits == {j \in 1..Len(s) : SubSeq(s, j, j) = c}
    IN  IF hits = {} THEN -1
        ELSE (CHOOSE j \in hits : \A h \in hits : h <= j) - 1

\* 0-based index of the first occurrence of the one-character string c, or -1
Index(s, c) ==
    LET hits == {j \in 1..Len(s) : SubSeq(s, j, j) = c}
    IN  IF hits = {} THEN -1
        ELSE (CHOOSE j \in hits : \A h \in hits : j <= h) - 1

\* the "before" result of strings.Cut(s, c)
CutBefore(s, c) ==
    LET idx == Index(s, c)
    IN  IF idx = -1 THEN s ELSE SubSeq(s, 1, idx)

\* structMember takes a tag like dns:"size-base32:SaltLength" and returns
\* the last part of this string.
structMember(s) ==
    LET idx == LastIndex(s, ":")
    IN  TrimSuffix(SubSeq(s, idx + 2, Len(s)), "\"")

\* structTag takes a tag like dns:"size-base32:SaltLength" and returns base32.
structTag(s) == CutBefore(TrimPrefix(s, "dns:\"size-"), ":")

\* token.IsExported: the name begins with an upper-case letter
UpperLetters ==
    {"A", "B", "C", "D", "E", "F", "G", "H", "I", "J", "K", "L", "M",
     "N", "O", "P", "Q", "R", "S", "T", "U", "V", "W", "X", "Y", "Z"}

Exported(name) == Len(name) > 0 /\ SubSeq(name, 1, 1) \in UpperLetters

\* ------------------------------------------------------------------------
\* go/types values: types, struct fields, the objects of the package scope
\* ------------------------------------------------------------------------
Basic(kind) == [k |-> "basic", kind |-> kind]

Slice == [k |-> "slice"]

Named(name) == [k |-> "named", name |-> name]

Fld(name, type, tag) == [name |-> name, type |-> type, anonymous |-> FALSE, tag |-> tag]

Embedded(name) == [name |-> name, type |-> Named(name), anonymous |-> TRUE, tag |-> ""]

Struct(fields) == [k |-> "struct", fields |-> fields]

Hdr == Fld("Hdr", Named("RR_Header"), "")

NumFields(st) == Len(st.fields)

Field(st, i) == st.fields[i + 1]

Tag(st, i) == st.fields[i + 1].tag

\* ------------------------------------------------------------------------
\* the package under generation: a catalogue of declarations, one record
\* type (Probe) whose second field is an input, and type-code constants
\* some of which may be missing
\* ------------------------------------------------------------------------
TypeDecl(under) == [obj |-> "type", under |-> under]

ConstDecl == [obj |-> "const", under |-> Basic("uint16")]

Tags ==
    {"", "dns:\"-\"", "dns:\"txt\"", "dns:\"opt\"", "dns:\"nsec\"", "dns:\"pairs\"",
     "dns:\"domain-name\"", "dns:\"apl\"", "dns:\"cdomain-name\"", "dns:\"a\"",
     "dns:\"aaaa\"", "dns:\"uint48\"", "dns:\"base32\"", "dns:\"base64\"",
     "dns:\"hex\"", "dns:\"any\"", "dns:\"octet\"", "dns:\"ipsechost\"",
     "dns:\"amtrelayhost\"",
     "dns:\"size-base32:HashLength\"", "dns:\"size-base64:KeySize\"",
     "dns:\"size-hex:SaltLength\"", "dns:\"size-hex:Len\"",
     "dns:\"size-base32:SaltLength\"", "dns:\"size-base64:SaltLength\"",
     "dns:\"size-hex:SaltLengthX\"",
     "dns:\"size-hex\"", "dns:\"size-md5:Len\"", "dns:\"size-hexa:Len\"",
     "dns:\"bogus\"", "dns:\"Hex\"", "dns:\"\""}

ProbeTypes ==
    {Slice, Basic("uint8"), Basic("uint16"), Basic("uint32"), Basic("uint64"),
     Basic("string"), Basic("bool"), Named("net.IP")}

ProbeFields == {Fld("P", ty, tag) : ty \in ProbeTypes, tag \in Tags}

Catalogue(probe) ==
    [ANY |-> TypeDecl(Struct(<<Hdr>>)),
     CDS |-> TypeDecl(Struct(<<Embedded("DS")>>)),
     DS |-> TypeDecl(Struct(<<Hdr,
                Fld("KeyTag", Basic("uint16"), ""),
                Fld("Algorithm", Basic("uint8"), ""),
                Fld("Digest", Basic("string"), "dns:\"hex\"")>>)),
     Example |-> TypeDecl(Struct(<<Hdr,
                Fld("A", Basic("uint16"), ""),
                Fld("B", Slice, "dns:\"txt\""),
                Fld("C", Basic("string"), "dns:\"hex\"")>>)),
     Fixed |-> TypeDecl(Struct(<<Hdr,
                Fld("Preference", Basic("uint16"), ""),
                Fld("Weight", Basic("uint8"), "")>>)),
     IPSECKEY |-> TypeDecl(Struct(<<Hdr,
                Fld("GatewayType", Basic("uint8"), ""),
                Fld("GatewayAddr", Named("net.IP"), "dns:\"-\""),
                Fld("GatewayHost", Basic("string"), "dns:\"ipsechost\""),
                Fld("PublicKey", Basic("string"), "dns:\"base64\"")>>)),
     Msg |-> TypeDecl(Struct(<<Embedded("MsgHdr"),
                Fld("Compress", Basic("bool"), "")>>)),
     MsgHdr |-> TypeDecl(Struct(<<Fld("Id", Basic("uint16"), "")>>)),
     NSEC3 |-> TypeDecl(Struct(<<Hdr,
                Fld("SaltLength", Basic("uint8"), ""),
                Fld("Salt", Basic("string"), "dns:\"size-hex:SaltLength\""),
                Fld("HashLength", Basic("uint8"), ""),
                Fld("NextDomain", Basic("string"), "dns:\"size-base32:HashLength\""),
                Fld("TypeBitMap", Slice, "dns:\"nsec\"")>>)),
     PrivateRR |-> TypeDecl(Struct(<<Hdr,
                Fld("Data", Named("PrivateRdata"), "")>>)),
     PrivateRdata |-> TypeDecl([k |-> "interface"]),
     Probe |-> TypeDecl(Struct(<<Hdr, probe,
                Fld("Tail", Basic("string"), "dns:\"hex\"")>>)),
     RFC3597 |-> TypeDecl(Struct(<<Hdr,
                Fld("Rdata", Basic("string"), "dns:\"hex\"")>>)),
     RR_Header |-> TypeDecl(Struct(<<Fld("Name", Basic("string"), "dns:\"cdomain-name\""),
                Fld("Rrtype", Basic("uint16"), "")>>)),
     TXT |-> TypeDecl(Struct(<<Hdr, Fld("Txt", Slice, "dns:\"txt\"")>>)),
     Type |-> TypeDecl(Basic("uint16")),
     TypeANY |-> ConstDecl, TypeCDS |-> ConstDecl, TypeDS |-> ConstDecl,
     TypeExample |-> ConstDecl, TypeFixed |-> ConstDecl,
     TypeIPSECKEY |-> ConstDecl, TypeNSEC3 |-> ConstDecl,
     TypeProbe |-> ConstDecl, TypeTXT |-> ConstDecl, TypeWrap |-> ConstDecl,
     Void |-> TypeDecl(Struct(<<>>)),
     Wrap |-> TypeDecl(Struct(<<Embedded("CDS")>>)),
     dname |-> TypeDecl(Struct(<<Hdr,
                Fld("Target", Basic("string"), "dns:\"domain-name\"")>>))]

\* the names of the catalogue in the order scope.Names() lists them (sorted)
AllNames ==
    <<"ANY", "CDS", "DS", "Example", "Fixed", "IPSECKEY", "Msg", "MsgHdr",
      "NSEC3", "PrivateRR", "PrivateRdata", "Probe", "RFC3597", "RR_Header",
      "TXT", "Type", "TypeANY", "TypeCDS", "TypeDS", "TypeExample",
      "TypeFixed", "TypeIPSECKEY", "TypeNSEC3", "TypeProbe", "TypeTXT",
      "TypeWrap", "Void", "Wrap", "dname">>

\* the type-code constants a package may lack
OptionalConsts == {"TypeCDS", "TypeProbe", "TypeWrap"}

Restrict(f, S) == [x \in S |-> f[x]]

Package(probe, missing) ==
    Restrict(Catalogue(probe), DOMAIN Catalogue(probe) \ missing)

\* scope.Lookup: the object of that name, or nil
Lookup(scope, name) == IF name \in DOMAIN scope THEN scope[name] ELSE Nil

\* scope.Names: the names of the scope, sorted
Names(scope) == SelectSeq(AllNames, LAMBDA n : n \in DOMAIN scope)

\* types.Type.Underlying
Underlying(scope, t) ==
    IF t.k # "named" THEN t
    ELSE IF t.name = "net.IP" THEN Slice
    ELSE scope[t.name].under

\* o.Type() of a scope object: the named type of a type declaration, the
\* type Type of a type-code constant
ObjType(name, o) == IF o.obj = "type" THEN Named(name) ELSE Named("Type")

RECURSIVE getTypeStruct(_, _)
\* getTypeStruct returns the (innermost) struct if the type is considered a
\* RR type, and whether embedded structs were resolved
getTypeStruct(t, scope) ==
    LET st == Underlying(scope, t)
    IN  IF st.k # "struct" THEN [st |-> Nil, emb |-> FALSE]
        ELSE IF NumFields(st) = 0 THEN [st |-> Nil, emb |-> FALSE]
        ELSE IF Field(st, 0).type = Named("RR_Header") THEN [st |-> st, emb |-> FALSE]
        ELSE IF Field(st, 0).anonymous
             THEN [st |-> getTypeStruct(Field(st, 0).type, scope).st, emb |-> TRUE]
        ELSE [st |-> Nil, emb |-> FALSE]

\* ------------------------------------------------------------------------
\* the emitted source, as statements
\* ------------------------------------------------------------------------
\* off, err = <prim>(rr.<f>, msg, off<args>)
Call(prim, f, args) == [k |-> "call", prim |-> prim, f |-> f, args |-> args]

\* pack: if err != nil { return off, err }    unpack: if err != nil { return err }
ErrRet == [k |-> "errret"]

\* if rr.<f> != "-" { <the next n statements> }
IfNotDash(f, n) == [k |-> "ifnot", f |-> f, n |-> n]

\* rr.<f>, err = <prim>(&s<args>)
Read(prim, f, args, len) == [k |-> "read", prim |-> prim, f |-> f, args |-> args, len |-> len]

\* if !s.Read<ty>(&rr.<f>) { return errUnpackOverflow }
ReadIntStmt(ty, f) == [k |-> "readint", ty |-> ty, f |-> f]

\* rr.GatewayAddr, rr.GatewayHost, err = unpackIPSECGateway(&s, msgBuf, rr.GatewayType)
GatewayRead == [k |-> "gwread", addr |-> "GatewayAddr", host |-> "GatewayHost", type |-> "GatewayType"]

\* if s.Empty() { return nil }
IfEmptyRet == [k |-> "ifempty"]

\* if !s.Empty() { return errTrailingRData }
Trailing == [k |-> "trailing"]

\* return off, nil }      return nil }
Ret == [k |-> "ret"]

FuncHead(dir, name) == [k |-> "func", dir |-> dir, rr |-> name]

\* s := cryptobyte.String(data)
Cursor == [k |-> "cursor"]

Comment(text) == [k |-> "comment", text |-> text]

packageHdr == [k |-> "packageHdr"]

Emit(out) == [fatal |-> FALSE, out |-> out]

Fatal == [fatal |-> TRUE, out |-> <<>>]

\* ------------------------------------------------------------------------
\* main: the pack emitter, the body of the loop over the fields
\* ------------------------------------------------------------------------
\* o without the check of err
oNoErrCheck(prim, f, args) == Emit(<<Call(prim, f, args)>>)

\* the helper o: the step, then the check that forwards its error
o(prim, f, args) == Emit(<<Call(prim, f, args), ErrRet>>)

PackSlice(st, i) ==
    LET f == Field(st, i).name
        t == Tag(st, i)
    IN  CASE t = "dns:\"-\"" -> Emit(<<>>)
          [] t = "dns:\"txt\"" -> o("packStringTxt", f, "")
          [] t = "dns:\"opt\"" -> o("packDataOpt", f, "")
          [] t = "dns:\"nsec\"" -> o("packDataNsec", f, "")
          [] t = "dns:\"pairs\"" -> o("packDataSVCB", f, "")
          [] t = "dns:\"domain-name\"" -> o("packDataDomainNames", f, "compression, false")
          [] t = "dns:\"apl\"" -> o("packDataApl", f, "")
          [] OTHER -> Fatal

\* PackBasic with no statement in the case types.Uint64
PackBasicNoUint64(st, i) ==
    LET f == Field(st, i).name
        ty == Field(st, i).type
    IN  IF ty.k # "basic" THEN Fatal
        ELSE CASE ty.kind = "uint8" -> o("packUint8", f, "")
               [] ty.kind = "uint16" -> o("packUint16", f, "")
               [] ty.kind = "uint32" -> o("packUint32", f, "")
               [] ty.kind = "uint64" -> Emit(<<>>)
               [] ty.kind = "string" -> o("packString", f, "")
               [] OTHER -> Fatal

PackBasic(st, i) ==
    LET f == Field(st, i).name
        ty == Field(st, i).type
    IN  IF ty.k # "basic" THEN Fatal
        ELSE CASE ty.kind = "uint8" -> o("packUint8", f, "")
               [] ty.kind = "uint16" -> o("packUint16", f, "")
               [] ty.kind = "uint32" -> o("packUint32", f, "")
               [] ty.kind = "uint64" -> o("packUint64", f, "")
               [] ty.kind = "string" -> o("packString", f, "")
               [] OTHER -> Fatal

\* PackSaltLength without the sentinel check
PackSaltLengthUnguarded(st, i) == o("packStringHex", Field(st, i).name, "")

PackSaltLength(st, i) ==
    LET f == Field(st, i).name
    IN  Emit(<<IfNotDash(f, 2), Call("packStringHex", f, ""), ErrRet>>)

PackScalar(st, i) ==
    LET f == Field(st, i).name
        t == Tag(st, i)
    IN  IF t = "dns:\"-\"" THEN Emit(<<>>)
        ELSE IF t = "dns:\"cdomain-name\"" THEN o("packDomainName", f, "compression, compress")
        ELSE IF t = "dns:\"domain-name\"" THEN o("packDomainName", f, "compression, false")
        ELSE IF t = "dns:\"a\"" THEN o("packDataA", f, "")
        ELSE IF t = "dns:\"aaaa\"" THEN o("packDataAAAA", f, "")
        ELSE IF t = "dns:\"uint48\"" THEN o("packUint48", f, "")
        ELSE IF t = "dns:\"txt\"" THEN o("packString", f, "")
        ELSE IF HasPrefix(t, "dns:\"size-base32") \/ t = "dns:\"base32\""
             THEN o("packStringBase32", f, "")
        ELSE IF HasPrefix(t, "dns:\"size-base64") \/ t = "dns:\"base64\""
             THEN o("packStringBase64", f, "")
        ELSE IF HasPrefix(t, "dns:\"size-hex:SaltLength") THEN PackSaltLength(st, i)
        ELSE IF HasPrefix(t, "dns:\"size-hex") \/ t = "dns:\"hex\""
             THEN o("packStringHex", f, "")
        ELSE IF t = "dns:\"any\"" THEN o("packStringAny", f, "")
        ELSE IF t = "dns:\"octet\"" THEN o("packStringOctet", f, "")
        ELSE IF t = "dns:\"ipsechost\"" \/ t = "dns:\"amtrelayhost\""
             THEN o("packIPSECGateway", f, "gateway")
        ELSE IF t = "" THEN PackBasic(st, i)
        ELSE Fatal

\* one iteration of the loop over the fields, for field i >= 1
PackField(st, i) ==
    IF Field(st, i).type = Slice THEN PackSlice(st, i) ELSE PackScalar(st, i)

\* ------------------------------------------------------------------------
\* main: the unpack emitter, the body of fieldLoop
\* ------------------------------------------------------------------------
errCheck == ErrRet

unpackField(f, unpacker) == <<Read(unpacker, f, "", ""), errCheck>>

unpackFieldBuf(f, unpacker) == <<Read(unpacker, f, "msgBuf", ""), errCheck>>

unpackFieldRest(f, unpacker) == <<Read(unpacker, f, "len(s)", ""), errCheck>>

unpackFieldLength(f, unpacker, len) == <<Read(unpacker, f, "int", len), errCheck>>

readInt(f, type_) == <<ReadIntStmt(type_, f)>>

\* UnpackSize reading to the end of the data instead of the length in the member
UnpackSizeRest(st, i) ==
    LET f == Field(st, i).name
        tag == structTag(Tag(st, i))
    IN  CASE tag = "hex" -> Emit(unpackFieldRest(f, "unpackStringHex"))
          [] tag = "base32" -> Emit(unpackFieldRest(f, "unpackStringBase32"))
          [] tag = "base64" -> Emit(unpackFieldRest(f, "unpackStringBase64"))
          [] OTHER -> Fatal

\* UnpackSize without the default case: any other encoding is read as hex
UnpackSizeAnyEncoding(st, i) ==
    LET f == Field(st, i).name
        member == structMember(Tag(st, i))
        tag == structTag(Tag(st, i))
    IN  CASE tag = "base32" -> Emit(unpackFieldLength(f, "unpackStringBase32", member))
          [] tag = "base64" -> Emit(unpackFieldLength(f, "unpackStringBase64", member))
          [] OTHER -> Emit(unpackFieldLength(f, "unpackStringHex", member))

\* the size-* branch: it ends with continue
UnpackSize(st, i) ==
    LET f == Field(st, i).name
        member == structMember(Tag(st, i))
        tag == structTag(Tag(st, i))
    IN  CASE tag = "hex" -> Emit(unpackFieldLength(f, "unpackStringHex", member))
          [] tag = "base32" -> Emit(unpackFieldLength(f, "unpackStringBase32", member))
          [] tag = "base64" -> Emit(unpackFieldLength(f, "unpackStringBase64", member))
          [] OTHER -> Fatal

\* the slice branch: it ends with continue
UnpackSlice(st, i) ==
    LET f == Field(st, i).name
        t == Tag(st, i)
    IN  CASE t = "dns:\"-\"" -> Emit(<<>>)
          [] t = "dns:\"txt\"" -> Emit(unpackField(f, "unpackStringTxt"))
          [] t = "dns:\"opt\"" -> Emit(unpackField(f, "unpackDataOpt"))
          [] t = "dns:\"nsec\"" -> Emit(unpackField(f, "unpackDataNsec"))
          [] t = "dns:\"pairs\"" -> Emit(unpackField(f, "unpackDataSVCB"))
          [] t = "dns:\"domain-name\"" -> Emit(unpackFieldBuf(f, "unpackDataDomainNames"))
          [] t = "dns:\"apl\"" -> Emit(unpackField(f, "unpackDataApl"))
          [] OTHER -> Fatal

UnpackBasic(st, i) ==
    LET f == Field(st, i).name
        ty == Field(st, i).type
    IN  IF ty.k # "basic" THEN Fatal
        ELSE CASE ty.kind = "uint8" -> Emit(readInt(f, "Uint8"))
               [] ty.kind = "uint16" -> Emit(readInt(f, "Uint16"))
               [] ty.kind = "uint32" -> Emit(readInt(f, "Uint32"))
               [] ty.kind = "uint64" -> Emit(readInt(f, "Uint64"))
               [] ty.kind = "string" -> Emit(unpackField(f, "unpackString"))
               [] OTHER -> Fatal

\* the statement emitted after the switch over the scalar tags
EmptyCheck(st, i) == IF i < NumFields(st) - 1 THEN <<IfEmptyRet>> ELSE <<>>

\* a scalar step, then: if we've hit s.Empty() we return without error
WithEmptyCheck(st, i, e) ==
    IF e.fatal THEN e ELSE Emit(e.out \o EmptyCheck(st, i))

UnpackScalar(st, i) ==
    LET f == Field(st, i).name
        t == Tag(st, i)
    IN  CASE t = "dns:\"-\"" -> Emit(<<>>)
          [] t \in {"dns:\"cdomain-name\"", "dns:\"domain-name\""} ->
                WithEmptyCheck(st, i, Emit(unpackFieldBuf(f, "unpackDomainName")))
          [] t = "dns:\"a\"" -> WithEmptyCheck(st, i, Emit(unpackField(f, "unpackDataA")))
          [] t = "dns:\"aaaa\"" -> WithEmptyCheck(st, i, Emit(unpackField(f, "unpackDataAAAA")))
          [] t = "dns:\"uint48\"" -> WithEmptyCheck(st, i, Emit(readInt(f, "Uint48")))
          [] t = "dns:\"txt\"" -> WithEmptyCheck(st, i, Emit(unpackField(f, "unpackString")))
          [] t = "dns:\"base32\"" ->
                WithEmptyCheck(st, i, Emit(unpackFieldRest(f, "unpackStringBase32")))
          [] t = "dns:\"base64\"" ->
                WithEmptyCheck(st, i, Emit(unpackFieldRest(f, "unpackStringBase64")))
          [] t = "dns:\"hex\"" ->
                WithEmptyCheck(st, i, Emit(unpackFieldRest(f, "unpackStringHex")))
          [] t = "dns:\"any\"" ->
                WithEmptyCheck(st, i, Emit(unpackFieldRest(f, "unpackStringAny")))
          [] t = "dns:\"octet\"" ->
                WithEmptyCheck(st, i, Emit(unpackField(f, "unpackStringOctet")))
          [] t \in {"dns:\"ipsechost\"", "dns:\"amtrelayhost\""} ->
                WithEmptyCheck(st, i, Emit(<<GatewayRead, errCheck>>))
          [] t = "" -> WithEmptyCheck(st, i, UnpackBasic(st, i))
          [] OTHER -> Fatal

\* UnpackTail without the check for trailing data
UnpackTailNoCheck == <<Ret>>

\* after fieldLoop: if !s.Empty() { return errTrailingRData }; return nil }
UnpackTail == <<Trailing, Ret>>

\* one iteration of fieldLoop, for field i >= 1
UnpackField(st, i) ==
    IF HasPrefix(Tag(st, i), "dns:\"size-") THEN UnpackSize(st, i)
    ELSE IF Field(st, i).type = Slice THEN UnpackSlice(st, i)
    ELSE UnpackScalar(st, i)

\* ------------------------------------------------------------------------
\* state
\* ------------------------------------------------------------------------
VARIABLES
    scope,       \* pkg.Scope(): name -> object
    phase,       \* where main is: collect, pack, unpack, gofmt, done, fatal; idle
    ni,          \* position of the loop over scope.Names()
    namedTypes,  \* the collected record names
    b,           \* the bytes.Buffer the source is emitted into
    ti,          \* position of the loop over namedTypes
    fi,          \* the field index i of the loop over the fields; 0 before the func line
    diag,        \* what log.Fatal reported
    file,        \* zmsg.go
    rec,         \* the record type whose generated methods run
    orig,        \* the record instance handed to pack
    cap,         \* len(msg) of the buffer handed to pack
    ppc,         \* pack: index of the next statement; 0 when returned
    off,         \* pack: the variable off
    msg,         \* pack: the bytes written into msg so far
    perr,        \* pack: the error returned
    pcalls,      \* pack: the fields whose primitive has been invoked, in order
    data,        \* unpack: the record data handed to unpack
    upc,         \* unpack: index of the next statement; 0 when returned
    s,           \* unpack: the cursor, the bytes not yet read
    rr,          \* unpack: the record being filled
    uerr,        \* unpack: the error returned
    ucalls,      \* unpack: per read step invoked, the field and the bytes left before it
    xphase       \* which generated method runs: idle, pack, unpack, done

genVars == <<scope, phase, ni, namedTypes, b, ti, fi, diag, file>>

runVars == <<rec, orig, cap, ppc, off, msg, perr, pcalls, data, upc, s, rr, uerr, ucalls, xphase>>

vars == <<scope, phase, ni, namedTypes, b, ti, fi, diag, file,
          rec, orig, cap, ppc, off, msg, perr, pcalls, data, upc, s, rr, uerr, ucalls, xphase>>

NoFile == [exists |-> FALSE, content |-> <<>>]

OldFile == [exists |-> TRUE, content |-> <<Comment("a previous run")>>]

NoDiag == [why |-> "", name |-> "", field |-> ""]

RunIdle ==
    /\ rec = "" /\ orig = <<>> /\ cap = 0
    /\ ppc = 0 /\ off = 0 /\ msg = <<>> /\ perr = "" /\ pcalls = <<>>
    /\ data = <<>> /\ upc = 0 /\ s = <<>> /\ rr = <<>> /\ uerr = "" /\ ucalls = <<>>
    /\ xphase = "idle"

\* main after loadModule has returned the package
GenInit ==
    /\ \E probe \in ProbeFields, missing \in SUBSET OptionalConsts :
          scope = Package(probe, missing)
    /\ phase = "collect"
    /\ ni = 1
    /\ namedTypes = <<>>
    /\ b = <<>>
    /\ ti = 1
    /\ fi = 0
    /\ diag = NoDiag
    /\ file \in {NoFile, OldFile}
    /\ RunIdle

\* the struct the emitters walk for a collected name
StructOf(sc, name) == getTypeStruct(ObjType(name, Lookup(sc, name)), sc).st

\* Skipped without the test for PrivateRR
SkippedNoPrivateRR(sc, name) ==
    LET ob == Lookup(sc, name)
    IN  \/ ob = Nil
        \/ ~Exported(name)
        \/ getTypeStruct(ObjType(name, ob), sc).st = Nil

\* the loop "Collect actual types (*X)": what one name does
Skipped(sc, name) ==
    LET ob == Lookup(sc, name)
    IN  \/ ob = Nil
        \/ ~Exported(name)
        \/ getTypeStruct(ObjType(name, ob), sc).st = Nil
        \/ name = "PrivateRR"

\* Check if corresponding TypeX exists
LacksTypeConst(sc, name) == Lookup(sc, "Type" \o name) = Nil /\ name # "RFC3597"

Collect ==
    /\ phase = "collect"
    /\ ni <= Len(Names(scope))
    /\ LET name == Names(scope)[ni]
       IN  IF Skipped(scope, name)
           THEN /\ ni' = ni + 1
                /\ UNCHANGED <<namedTypes, phase, diag>>
           ELSE IF LacksTypeConst(scope, name)
           THEN /\ phase' = "fatal"
                /\ diag' = [why |-> "Constant Type does not exist", name |-> name, field |-> ""]
                /\ UNCHANGED <<ni, namedTypes>>
           ELSE /\ namedTypes' = Append(namedTypes, name)
                /\ ni' = ni + 1
                /\ UNCHANGED <<phase, diag>>
    /\ UNCHANGED <<scope, b, ti, fi, file>>
    /\ UNCHANGED runVars

\* b.WriteString(packageHdr); fmt.Fprint(b, "// pack*() functions\n\n")
CollectDone ==
    /\ phase = "collect"
    /\ ni > Len(Names(scope))
    /\ phase' = "pack"
    /\ b' = <<packageHdr, Comment("pack*() functions")>>
    /\ ti' = 1
    /\ fi' = 0
    /\ UNCHANGED <<scope, ni, namedTypes, diag, file>>
    /\ UNCHANGED runVars

\* fmt.Fprintf(b, "func (rr *%s) pack(...) (off1 int, err error) {\n", name)
PackFunc ==
    /\ phase = "pack"
    /\ ti <= Len(namedTypes)
    /\ fi = 0
    /\ b' = Append(b, FuncHead("pack", namedTypes[ti]))
    /\ fi' = 1
    /\ UNCHANGED <<scope, phase, ni, namedTypes, ti, diag, file>>
    /\ UNCHANGED runVars

\* PackFieldStep that logs the unknown tag and goes on with the next field
PackFieldStepLogOnly ==
    /\ phase = "pack"
    /\ ti <= Len(namedTypes)
    /\ fi >= 1
    /\ LET st == StructOf(scope, namedTypes[ti])
       IN  /\ fi < NumFields(st)
           /\ b' = b \o PackField(st, fi).out
           /\ fi' = fi + 1
    /\ UNCHANGED <<scope, phase, ni, namedTypes, ti, diag, file>>
    /\ UNCHANGED runVars

PackFieldStep ==
    /\ phase = "pack"
    /\ ti <= Len(namedTypes)
    /\ fi >= 1
    /\ LET st == StructOf(scope, namedTypes[ti])
       IN  /\ fi < NumFields(st)
           /\ LET e == PackField(st, fi)
              IN  IF e.fatal
                  THEN /\ phase' = "fatal"
                       /\ diag' = [why |-> "pack", name |-> namedTypes[ti],
                                   field |-> Field(st, fi).name]
                       /\ UNCHANGED <<b, fi>>
                  ELSE /\ b' = b \o e.out
                       /\ fi' = fi + 1
                       /\ UNCHANGED <<phase, diag>>
    /\ UNCHANGED <<scope, ni, namedTypes, ti, file>>
    /\ UNCHANGED runVars

\* fmt.Fprint(b, "return off, nil }\n\n")
PackRet ==
    /\ phase = "pack"
    /\ ti <= Len(namedTypes)
    /\ fi >= 1
    /\ fi >= NumFields(StructOf(scope, namedTypes[ti]))
    /\ b' = Append(b, Ret)
    /\ ti' = ti + 1
    /\ fi' = 0
    /\ UNCHANGED <<scope, phase, ni, namedTypes, diag, file>>
    /\ UNCHANGED runVars

\* fmt.Fprint(b, "// unpack*() functions\n\n")
PackDone ==
    /\ phase = "pack"
    /\ ti > Len(namedTypes)
    /\ phase' = "unpack"
    /\ b' = Append(b, Comment("unpack*() functions"))
    /\ ti' = 1
    /\ fi' = 0
    /\ UNCHANGED <<scope, ni, namedTypes, diag, file>>
    /\ UNCHANGED runVars

\* the func line and: s := cryptobyte.String(data)
UnpackFunc ==
    /\ phase = "unpack"
    /\ ti <= Len(namedTypes)
    /\ fi = 0
    /\ b' = b \o <<FuncHead("unpack", namedTypes[ti]), Cursor>>
    /\ fi' = 1
    /\ UNCHANGED <<scope, phase, ni, namedTypes, ti, diag, file>>
    /\ UNCHANGED runVars

UnpackFieldStep ==
    /\ phase = "unpack"
    /\ ti <= Len(namedTypes)
    /\ fi >= 1
    /\ LET st == StructOf(scope, namedTypes[ti])
       IN  /\ fi < NumFields(st)
           /\ LET e == UnpackField(st, fi)
              IN  IF e.fatal
                  THEN /\ phase' = "fatal"
                       /\ diag' = [why |-> "unpack", name |-> namedTypes[ti],
                                   field |-> Field(st, fi).name]
                       /\ UNCHANGED <<b, fi>>
                  ELSE /\ b' = b \o e.out
                       /\ fi' = fi + 1
                       /\ UNCHANGED <<phase, diag>>
    /\ UNCHANGED <<scope, ni, namedTypes, ti, file>>
    /\ UNCHANGED runVars

\* if !s.Empty() { return errTrailingRData }; return nil }
UnpackRet ==
    /\ phase = "unpack"
    /\ ti <= Len(namedTypes)
    /\ fi >= 1
    /\ fi >= NumFields(StructOf(scope, namedTypes[ti]))
    /\ b' = b \o UnpackTail
    /\ ti' = ti + 1
    /\ fi' = 0
    /\ UNCHANGED <<scope, phase, ni, namedTypes, diag, file>>
    /\ UNCHANGED runVars

\* the loop over namedTypes is over: gofmt is next
UnpackDone ==
    /\ phase = "unpack"
    /\ ti > Len(namedTypes)
    /\ phase' = "gofmt"
    /\ UNCHANGED <<scope, ni, namedTypes, b, ti, fi, diag, file>>
    /\ UNCHANGED runVars

\* format.Source, os.Create("zmsg.go"), f.Write(res)
WriteResult ==
    /\ phase = "gofmt"
    /\ file' = [exists |-> TRUE, content |-> b]
    /\ phase' = "done"
    /\ UNCHANGED <<scope, ni, namedTypes, b, ti, fi, diag>>
    /\ UNCHANGED runVars

GenNext ==
    \/ Collect
    \/ CollectDone
    \/ PackFunc
    \/ PackFieldStep
    \/ PackRet
    \/ PackDone
    \/ UnpackFunc
    \/ UnpackFieldStep
    \/ UnpackRet
    \/ UnpackDone
    \/ WriteResult

GenSpec == GenInit /\ [][GenNext]_vars

\* ------------------------------------------------------------------------
\* the scalar codec library the emitted statements call into.  Wire bytes
\* are 0..MaxByte; a string is a sequence of characters, the characters of
\* an encodable string being bytes, and "-" is the one-character string
\* Dash whose character is no digit.
\* ------------------------------------------------------------------------
MaxByte == 3

MaxData == 4

MaxCap == 6

Byte == 0..MaxByte

Dash == <<45>>

RECURSIVE ToNum(_)
\* big-endian value of a sequence of bytes
ToNum(bs) == IF bs = <<>> THEN 0
             ELSE ToNum(SubSeq(bs, 1, Len(bs) - 1)) * (MaxByte + 1) + bs[Len(bs)]

RECURSIVE ToBytes(_, _)
\* the w low digits of v, big-endian
ToBytes(v, w) == IF w = 0 THEN <<>>
                 ELSE Append(ToBytes(v \div (MaxByte + 1), w - 1), v % (MaxByte + 1))

RECURSIVE Pow(_, _)
Pow(x, n) == IF n = 0 THEN 1 ELSE x * Pow(x, n - 1)

IsBytes(v) == \A j \in 1..Len(v) : v[j] \in Byte

\* the codec behind a primitive, by the name after pack/unpack/Read
Codec(prim) ==
    LET n == TrimPrefix(TrimPrefix(prim, "pack"), "unpack")
    IN  CASE n = "Uint8" -> [fam |-> "uint", w |-> 1]
          [] n = "Uint16" -> [fam |-> "uint", w |-> 2]
          [] n = "Uint32" -> [fam |-> "uint", w |-> 4]
          [] n = "Uint48" -> [fam |-> "uint", w |-> 6]
          [] n = "Uint64" -> [fam |-> "uint", w |-> 8]
          [] n = "DataA" -> [fam |-> "fixed", w |-> 4]
          [] n = "DataAAAA" -> [fam |-> "fixed", w |-> 16]
          [] n \in {"String", "DomainName", "StringOctet"} -> [fam |-> "lp", w |-> 0]
          [] n \in {"StringHex", "StringBase32", "StringBase64", "StringAny"} ->
                [fam |-> "blob", w |-> 0]
          [] n \in {"StringTxt", "DataOpt", "DataNsec", "DataSVCB", "DataDomainNames",
                    "DataApl"} -> [fam |-> "seq", w |-> 0]
          [] n = "IPSECGateway" -> [fam |-> "gateway", w |-> 0]

Ok(bytes) == [ok |-> TRUE, bytes |-> bytes]

Bad == [ok |-> FALSE, bytes |-> <<>>]

\* a length byte, then the characters
EncodeLP(v) == IF IsBytes(v) /\ Len(v) <= MaxByte THEN Ok(<<Len(v)>> \o v) ELSE Bad

RECURSIVE EncodeSeq(_)
EncodeSeq(v) ==
    IF v = <<>> THEN Ok(<<>>)
    ELSE LET h == EncodeLP(Head(v))
             t == EncodeSeq(Tail(v))
         IN  IF h.ok /\ t.ok THEN Ok(h.bytes \o t.bytes) ELSE Bad

\* the gateway of IPSECKEY and AMTRELAY: nothing, an address or a host name,
\* by the gateway type
EncodeGateway(addr, host, gwtype) ==
    CASE gwtype = 0 -> Ok(<<>>)
      [] gwtype = 1 -> IF IsBytes(addr) /\ Len(addr) = 4 THEN Ok(addr) ELSE Bad
      [] gwtype = 3 -> EncodeLP(host)
      [] OTHER -> Bad

\* the bytes a pack primitive writes for the value v of a field
Encode(c, v) ==
    CASE c.fam = "uint" -> IF v < Pow(MaxByte + 1, c.w) THEN Ok(ToBytes(v, c.w)) ELSE Bad
      [] c.fam = "fixed" -> IF IsBytes(v) /\ Len(v) = c.w THEN Ok(v) ELSE Bad
      [] c.fam = "lp" -> EncodeLP(v)
      [] c.fam = "blob" -> IF IsBytes(v) THEN Ok(v) ELSE Bad
      [] c.fam = "seq" -> EncodeSeq(v)

\* a pack primitive: (msg, off, value) -> (new offset, error); on error the
\* offset returned is len(msg)
PackPrim(e, at, room) ==
    IF ~e.ok THEN [off |-> room, err |-> "errPack", bytes |-> <<>>]
    ELSE IF at + Len(e.bytes) > room THEN [off |-> room, err |-> "errBuf", bytes |-> <<>>]
    ELSE [off |-> at + Len(e.bytes), err |-> "", bytes |-> e.bytes]

Got(v, rest) == [ok |-> TRUE, v |-> v, rest |-> rest]

Miss(zero, rest) == [ok |-> FALSE, v |-> zero, rest |-> rest]

Drop(cur, n) == SubSeq(cur, n + 1, Len(cur))

DecodeLP(cur) ==
    IF cur # <<>> /\ Len(cur) >= 1 + cur[1]
    THEN Got(SubSeq(cur, 2, 1 + cur[1]), Drop(cur, 1 + cur[1]))
    ELSE Miss(<<>>, cur)

RECURSIVE DecodeSeq(_)
\* the elements up to the end of the record data
DecodeSeq(cur) ==
    IF cur = <<>> THEN Got(<<>>, <<>>)
    ELSE LET h == DecodeLP(cur)
         IN  IF ~h.ok THEN Miss(<<>>, cur)
             ELSE LET t == DecodeSeq(h.rest)
                  IN  IF t.ok THEN Got(<<h.v>> \o t.v, <<>>) ELSE Miss(<<>>, cur)

\* exactly n bytes
DecodeBlob(cur, n) ==
    IF Len(cur) >= n THEN Got(SubSeq(cur, 1, n), Drop(cur, n)) ELSE Miss(<<>>, cur)

DecodeUint(cur, w) ==
    IF Len(cur) >= w THEN Got(ToNum(SubSeq(cur, 1, w)), Drop(cur, w)) ELSE Miss(0, cur)

\* an unpack primitive on the cursor; n is the explicit length, if it takes one
Decode(c, cur, n) ==
    CASE c.fam = "uint" -> DecodeUint(cur, c.w)
      [] c.fam = "fixed" -> DecodeBlob(cur, c.w)
      [] c.fam = "lp" -> DecodeLP(cur)
      [] c.fam = "blob" -> DecodeBlob(cur, n)
      [] c.fam = "seq" -> DecodeSeq(cur)

\* unpackIPSECGateway: the address and the host, by the gateway type
DecodeGateway(cur, gwtype) ==
    CASE gwtype = 0 -> [ok |-> TRUE, addr |-> <<>>, host |-> <<>>, rest |-> cur]
      [] gwtype = 1 ->
            LET d == DecodeBlob(cur, 4)
            IN  [ok |-> d.ok, addr |-> d.v, host |-> <<>>, rest |-> d.rest]
      [] gwtype = 3 ->
            LET d == DecodeLP(cur)
            IN  [ok |-> d.ok, addr |-> <<>>, host |-> d.v, rest |-> d.rest]
      [] OTHER -> [ok |-> FALSE, addr |-> <<>>, host |-> <<>>, rest |-> cur]

\* ------------------------------------------------------------------------
\* the generated methods of a record type, and the instances they run on
\* ------------------------------------------------------------------------
RECURSIVE PackStmts(_, _)
\* the body of func (rr *X) pack, from field i on
PackStmts(st, i) ==
    IF i >= NumFields(st) THEN <<Ret>>
    ELSE PackField(st, i).out \o PackStmts(st, i + 1)

RECURSIVE UnpackLoop(_, _)
UnpackLoop(st, i) ==
    IF i >= NumFields(st) THEN UnpackTail
    ELSE UnpackField(st, i).out \o UnpackLoop(st, i + 1)

\* the body of func (rr *X) unpack
UnpackStmts(st) == <<Cursor>> \o UnpackLoop(st, 1)

\* the package whose generated methods are run: Probe has an ignored field
RunProbe == Fld("P", Basic("uint16"), "dns:\"-\"")

RunScope == Package(RunProbe, {})

Accepted(st) ==
    \A i \in 1..(NumFields(st) - 1) : ~PackField(st, i).fatal /\ ~UnpackField(st, i).fatal

RunRecords ==
    {n \in DOMAIN RunScope :
        /\ ~Skipped(RunScope, n)
        /\ ~LacksTypeConst(RunScope, n)
        /\ Accepted(StructOf(RunScope, n))}

RunStruct(n) == StructOf(RunScope, n)

PackCode(n) == PackStmts(RunStruct(n), 1)

UnpackCode(n) == UnpackStmts(RunStruct(n))

FieldIdx(st) == 1..(NumFields(st) - 1)

FieldNames(st) == {Field(st, i).name : i \in FieldIdx(st)}

FieldByName(st, f) == CHOOSE fd \in {Field(st, i) : i \in FieldIdx(st)} : fd.name = f

IsUintType(ty) == ty.k = "basic" /\ ty.kind \in {"uint8", "uint16", "uint32", "uint64"}

\* the zero value of a field
Zero(fd) == IF IsUintType(fd.type) THEN 0 ELSE <<>>

ZeroRecord(st) == [f \in FieldNames(st) |-> Zero(FieldByName(st, f))]

LPTags == {"", "dns:\"txt\"", "dns:\"domain-name\"", "dns:\"cdomain-name\"",
           "dns:\"octet\"", "dns:\"ipsechost\"", "dns:\"amtrelayhost\""}

StrVals == {<<>>, <<0>>, <<1>>}

BlobVals == {<<>>, <<0>>, <<1>>, <<1, 0>>, Dash}

SeqVals == {<<>>, << <<>> >>, << <<1>> >>, << <<0>>, <<>> >>}

AddrVals == {<<>>, <<1, 0, 0, 1>>}

\* the values a field of an instance is drawn from
FieldDom(fd) ==
    IF IsUintType(fd.type) THEN Byte
    ELSE IF fd.type = Slice THEN SeqVals
    ELSE IF fd.type = Named("net.IP") THEN AddrVals
    ELSE IF fd.tag \in LPTags THEN StrVals
    ELSE BlobVals

RECURSIVE Product(_, _)
\* all records over the fields i.. of st, each field from its own domain
Product(st, i) ==
    IF i >= NumFields(st) THEN {<<>>}
    ELSE {(Field(st, i).name :> v) @@ r : v \in FieldDom(Field(st, i)), r \in Product(st, i + 1)}

\* the length field of a size-* field holds the length of its value ("-" is
\* no salt), and the gateway fields agree with the gateway type
WellFormed(st, r) ==
    /\ \A i \in FieldIdx(st) :
          HasPrefix(Tag(st, i), "dns:\"size-") =>
              LET v == r[Field(st, i).name]
              IN  r[structMember(Tag(st, i))] = IF v = Dash THEN 0 ELSE Len(v)
    /\ "GatewayType" \in FieldNames(st) =>
          /\ r["GatewayType"] \in {0, 1, 3}
          /\ (r["GatewayType"] = 1) <=> (r["GatewayAddr"] # <<>>)
          /\ (r["GatewayType"] # 3) => (r["GatewayHost"] = <<>>)

Instances(n) == {r \in Product(RunStruct(n), 1) : WellFormed(RunStruct(n), r)}

RECURSIVE SeqsUpTo(_)
SeqsUpTo(n) ==
    IF n = 0 THEN {<<>>}
    ELSE SeqsUpTo(n - 1) \cup {Append(q, x) : q \in {t \in SeqsUpTo(n - 1) : Len(t) = n - 1}, x \in Byte}

WireData == SeqsUpTo(MaxData)

GenIdle ==
    /\ scope = RunScope /\ phase = "idle" /\ ni = 0 /\ namedTypes = <<>> /\ b = <<>>
    /\ ti = 0 /\ fi = 0 /\ diag = NoDiag /\ file = NoFile

\* a record instance about to be packed into a buffer of cap bytes, or
\* record data off the wire about to be unpacked
RunInit ==
    /\ GenIdle
    /\ rec \in RunRecords
    /\ \/ /\ xphase = "pack"
          /\ orig \in Instances(rec)
          /\ cap \in 0..MaxCap
          /\ ppc = 1
          /\ data = <<>>
       \/ /\ xphase = "wire"
          /\ orig = ZeroRecord(RunStruct(rec))
          /\ cap = 0
          /\ ppc = 0
          /\ data \in WireData
    /\ off = 0 /\ msg = <<>> /\ perr = "" /\ pcalls = <<>>
    /\ upc = 0 /\ s = <<>> /\ rr = ZeroRecord(RunStruct(rec)) /\ uerr = "" /\ ucalls = <<>>

PackAt == PackCode(rec)[ppc]

UnpackAt == UnpackCode(rec)[upc]

unpackSide == <<data, upc, s, rr, uerr, ucalls>>

packSide == <<cap, ppc, off, msg, perr, pcalls>>

\* off, err = packX(rr.F, msg, off)
PackCall ==
    /\ xphase = "pack" /\ ppc > 0 /\ PackAt.k = "call"
    /\ LET e == IF PackAt.args = "gateway"
                THEN EncodeGateway(orig["GatewayAddr"], orig[PackAt.f], orig["GatewayType"])
                ELSE Encode(Codec(PackAt.prim), orig[PackAt.f])
           r == PackPrim(e, off, cap)
       IN  /\ off' = r.off
           /\ perr' = r.err
           /\ msg' = msg \o r.bytes
           /\ pcalls' = Append(pcalls, [f |-> PackAt.f, off |-> r.off, err |-> r.err])
    /\ ppc' = ppc + 1
    /\ UNCHANGED <<rec, orig, cap, xphase>>
    /\ UNCHANGED unpackSide
    /\ UNCHANGED genVars

\* if err != nil { return off, err }
PackErrRet ==
    /\ xphase = "pack" /\ ppc > 0 /\ PackAt.k = "errret"
    /\ IF perr # ""
       THEN ppc' = 0 /\ xphase' = "done"
       ELSE ppc' = ppc + 1 /\ UNCHANGED xphase
    /\ UNCHANGED <<rec, orig, cap, off, msg, perr, pcalls>>
    /\ UNCHANGED unpackSide
    /\ UNCHANGED genVars

\* if rr.F != "-" {
PackIfNot ==
    /\ xphase = "pack" /\ ppc > 0 /\ PackAt.k = "ifnot"
    /\ ppc' = IF orig[PackAt.f] # Dash THEN ppc + 1 ELSE ppc + 1 + PackAt.n
    /\ UNCHANGED <<rec, orig, cap, off, msg, perr, pcalls, xphase>>
    /\ UNCHANGED unpackSide
    /\ UNCHANGED genVars

\* return off, nil
PackReturn ==
    /\ xphase = "pack" /\ ppc > 0 /\ PackAt.k = "ret"
    /\ ppc' = 0
    /\ perr' = ""
    /\ xphase' = "packed"
    /\ UNCHANGED <<rec, orig, cap, off, msg, pcalls>>
    /\ UNCHANGED unpackSide
    /\ UNCHANGED genVars

\* unpack is called on the bytes pack wrote, or on the bytes off the wire
UnpackStart ==
    /\ \/ xphase = "packed" /\ data' = SubSeq(msg, 1, off) /\ xphase' = "unpack"
       \/ xphase = "wire" /\ data' = data /\ xphase' = "wunpack"
    /\ upc' = 1
    /\ UNCHANGED <<rec, orig, s, rr, uerr, ucalls>>
    /\ UNCHANGED packSide
    /\ UNCHANGED genVars

Unpacking == xphase \in {"unpack", "wunpack"} /\ upc > 0

UnpackReturns == upc' = 0 /\ xphase' = IF xphase = "unpack" THEN "done" ELSE "wdone"

\* s := cryptobyte.String(data)
UnpackCursor ==
    /\ Unpacking /\ UnpackAt.k = "cursor"
    /\ s' = data
    /\ upc' = upc + 1
    /\ UNCHANGED <<rec, orig, data, rr, uerr, ucalls, xphase>>
    /\ UNCHANGED packSide
    /\ UNCHANGED genVars

\* rr.F, err = unpackX(&s ...)
UnpackRead ==
    /\ Unpacking /\ UnpackAt.k = "read"
    /\ LET n == IF UnpackAt.args = "int" THEN rr[UnpackAt.len] ELSE Len(s)
           d == Decode(Codec(UnpackAt.prim), s, n)
       IN  /\ rr' = [rr EXCEPT ![UnpackAt.f] = d.v]
           /\ s' = d.rest
           /\ uerr' = IF d.ok THEN "" ELSE "errUnpack"
           /\ ucalls' = Append(ucalls, [f |-> UnpackAt.f, left |-> Len(s), ok |-> d.ok])
    /\ upc' = upc + 1
    /\ UNCHANGED <<rec, orig, data, xphase>>
    /\ UNCHANGED packSide
    /\ UNCHANGED genVars

\* rr.GatewayAddr, rr.GatewayHost, err = unpackIPSECGateway(&s, msgBuf, rr.GatewayType)
UnpackGateway ==
    /\ Unpacking /\ UnpackAt.k = "gwread"
    /\ LET d == DecodeGateway(s, rr[UnpackAt.type])
       IN  /\ rr' = [rr EXCEPT ![UnpackAt.addr] = d.addr, ![UnpackAt.host] = d.host]
           /\ s' = d.rest
           /\ uerr' = IF d.ok THEN "" ELSE "errUnpack"
           /\ ucalls' = Append(ucalls, [f |-> UnpackAt.host, left |-> Len(s), ok |-> d.ok])
    /\ upc' = upc + 1
    /\ UNCHANGED <<rec, orig, data, xphase>>
    /\ UNCHANGED packSide
    /\ UNCHANGED genVars

\* if !s.ReadUintN(&rr.F) { return errUnpackOverflow }
UnpackReadInt ==
    /\ Unpacking /\ UnpackAt.k = "readint"
    /\ LET d == Decode(Codec(UnpackAt.ty), s, 0)
       IN  /\ ucalls' = Append(ucalls, [f |-> UnpackAt.f, left |-> Len(s), ok |-> d.ok])
           /\ IF d.ok
              THEN /\ rr' = [rr EXCEPT ![UnpackAt.f] = d.v]
                   /\ s' = d.rest
                   /\ upc' = upc + 1
                   /\ UNCHANGED <<uerr, xphase>>
              ELSE /\ uerr' = "errUnpackOverflow"
                   /\ UnpackReturns
                   /\ UNCHANGED <<rr, s>>
    /\ UNCHANGED <<rec, orig, data>>
    /\ UNCHANGED packSide
    /\ UNCHANGED genVars

\* if err != nil { return err }
UnpackErrRet ==
    /\ Unpacking /\ UnpackAt.k = "errret"
    /\ IF uerr # ""
       THEN UnpackReturns
       ELSE upc' = upc + 1 /\ UNCHANGED xphase
    /\ UNCHANGED <<rec, orig, data, s, rr, uerr, ucalls>>
    /\ UNCHANGED packSide
    /\ UNCHANGED genVars

\* if s.Empty() { return nil }
UnpackIfEmpty ==
    /\ Unpacking /\ UnpackAt.k = "ifempty"
    /\ IF s = <<>>
       THEN UnpackReturns /\ uerr' = ""
       ELSE upc' = upc + 1 /\ UNCHANGED <<xphase, uerr>>
    /\ UNCHANGED <<rec, orig, data, s, rr, ucalls>>
    /\ UNCHANGED packSide
    /\ UNCHANGED genVars

\* if !s.Empty() { return errTrailingRData }
UnpackTrailing ==
    /\ Unpacking /\ UnpackAt.k = "trailing"
    /\ IF s # <<>>
       THEN UnpackReturns /\ uerr' = "errTrailingRData"
       ELSE upc' = upc + 1 /\ UNCHANGED <<xphase, uerr>>
    /\ UNCHANGED <<rec, orig, data, s, rr, ucalls>>
    /\ UNCHANGED packSide
    /\ UNCHANGED genVars

\* return nil
UnpackReturn ==
    /\ Unpacking /\ UnpackAt.k = "ret"
    /\ UnpackReturns
    /\ uerr' = ""
    /\ UNCHANGED <<rec, orig, data, s, rr, ucalls>>
    /\ UNCHANGED packSide
    /\ UNCHANGED genVars

RunNext ==
    \/ PackCall
    \/ PackErrRet
    \/ PackIfNot
    \/ PackReturn
    \/ UnpackStart
    \/ UnpackCursor
    \/ UnpackRead
    \/ UnpackGateway
    \/ UnpackReadInt
    \/ UnpackErrRet
    \/ UnpackIfEmpty
    \/ UnpackTrailing
    \/ UnpackReturn

RunSpec == RunInit /\ [][RunNext]_vars

\* ------------------------------------------------------------------------
\* reading the emitted source back
\* ------------------------------------------------------------------------
Min(S) == CHOOSE x \in S : \A y \in S : x <= y

\* the statements of func (rr *name) <dir> in the source src, without the func line
BodyOf(src, dir, name) ==
    LET at == CHOOSE j \in 1..Len(src) : src[j] = FuncHead(dir, name)
        ends == {j \in (at + 1)..Len(src) : src[j].k \in {"func", "comment"}} \cup {Len(src) + 1}
    IN  SubSeq(src, at + 1, Min(ends) - 1)

HasFunc(src, dir, name) == \E j \in 1..Len(src) : src[j] = FuncHead(dir, name)

IsStep(x) == x.k \in {"call", "read", "readint", "gwread"}

Steps(body) == SelectSeq(body, IsStep)

Count(body, stmt) == Cardinality({j \in 1..Len(body) : body[j] = stmt})

Ignored(fd) == fd.tag = "dns:\"-\""

IsGatewayTag(t) == t \in {"dns:\"ipsechost\"", "dns:\"amtrelayhost\""}

\* the fields after the header that are not ignored, in declaration order
NonIgnored(st) == SelectSeq(Tail(st.fields), LAMBDA fd : ~Ignored(fd))

\* the step belongs to the field: it names the field, or it is the gateway
\* step of a gateway field
StepIsFor(step, fd) ==
    IF step.k = "gwread" THEN IsGatewayTag(fd.tag) ELSE step.f = fd.name

InOrder(steps, fds) ==
    /\ Len(steps) = Len(fds)
    /\ \A q \in 1..Len(steps) : StepIsFor(steps[q], fds[q])

Records == {namedTypes[j] : j \in 1..Len(namedTypes)}

\* C5: in the written source, the pack steps of every record type are, in
\* order, exactly one per non-ignored field after the header (the header
\* field and the ignored fields have none; the gateway and the SaltLength
\* conditional count as one), and so are the read steps of its unpack method.
C5_StepsMatchFields ==
    phase = "done" =>
        \A name \in Records :
            LET st == StructOf(scope, name)
            IN  /\ InOrder(Steps(BodyOf(file.content, "pack", name)), NonIgnored(st))
                /\ InOrder(Steps(BodyOf(file.content, "unpack", name)), NonIgnored(st))

ProbeField == scope["Probe"].under.fields[2]

C5_Witness ==
    /\ phase = "done"
    /\ {"CDS", "IPSECKEY", "NSEC3", "Probe"} \subseteq Records
    /\ ProbeField.tag = "dns:\"-\""
    /\ Len(Steps(BodyOf(file.content, "pack", "Probe"))) = 1
    /\ Len(Steps(BodyOf(file.content, "unpack", "IPSECKEY"))) = 3

\* the fields after the header that are followed by another field and have
\* a read step
ReadNotLast(st) == {i \in 1..(NumFields(st) - 2) : ~Ignored(Field(st, i))}

\* C2: in the written source, the unpack method of every record type has an
\* early-success check after the read step of every field but the last,
\* whatever the field's shape or annotation; the unpack method of Example
\* has 3 read steps, 2 early-success checks and one trailing-data check.
C2_EmptyCheckAfterEveryField ==
    phase = "done" =>
        /\ \A name \in Records :
              Count(BodyOf(file.content, "unpack", name), IfEmptyRet)
                 = Cardinality(ReadNotLast(StructOf(scope, name)))
        /\ LET body == BodyOf(file.content, "unpack", "Example")
           IN  /\ Len(Steps(body)) = 3
               /\ Count(body, IfEmptyRet) = 2
               /\ Count(body, Trailing) = 1

\* the scalar fields with a size-parametrized annotation
SizeFields(st) ==
    {i \in 1..(NumFields(st) - 1) :
        Field(st, i).type # Slice /\ HasPrefix(Tag(st, i), "dns:\"size-")}

\* the pack method guards the step of field f by the sentinel check
Guarded(body, f) ==
    \E j \in 1..(Len(body) - 1) :
        body[j] = IfNotDash(f, 2) /\ body[j + 1].k = "call" /\ body[j + 1].f = f

\* the pack method has the step of field f, outside any sentinel check
Unguarded(body, f) ==
    /\ ~Guarded(body, f)
    /\ \E j \in 1..Len(body) : body[j].k = "call" /\ body[j].f = f

NoSentinelCheck(src, name) ==
    \A j \in 1..Len(BodyOf(src, "unpack", name)) : BodyOf(src, "unpack", name)[j].k # "ifnot"

DnsTag(a) == "dns:\"" \o a \o "\""

SequenceAnnotations == {"-", "txt", "opt", "nsec", "pairs", "domain-name", "apl"}

ScalarAnnotations ==
    {"-", "cdomain-name", "domain-name", "a", "aaaa", "uint48", "txt", "base32",
     "base64", "hex", "any", "octet", "ipsechost", "amtrelayhost"}

SizeEncodings == {"base32", "base64", "hex"}

\* dns:"size-<encoding>:<f>"
IsSizeTag(t) ==
    \E enc \in SizeEncodings :
        HasPrefix(t, "dns:\"size-" \o enc \o ":") /\ HasSuffix(t, "\"")

InVocabulary(fd) ==
    IF fd.type = Slice
    THEN \E a \in SequenceAnnotations : fd.tag = DnsTag(a)
    ELSE \/ \E a \in ScalarAnnotations : fd.tag = DnsTag(a)
         \/ IsSizeTag(fd.tag)
         \/ /\ fd.tag = ""
            /\ fd.type.k = "basic"
            /\ fd.type.kind \in {"uint8", "uint16", "uint32", "uint64", "string"}

\* the record types the extraction keeps
RecordNames == {n \in DOMAIN scope : ~Skipped(scope, n)}

FieldsAfterHeader(name) == {Field(StructOf(scope, name), i) : i \in 1..(NumFields(StructOf(scope, name)) - 1)}

AllInVocabulary == \A n \in RecordNames : \A fd \in FieldsAfterHeader(n) : InVocabulary(fd)

SomeConstMissing == \E n \in RecordNames : LacksTypeConst(scope, n)

\* C6: once every record type has its type-code constant, the run is not
\* aborted exactly when every field after the header of every record type
\* is inside the vocabulary: a run that gets past the emitters has only such
\* fields, and a run aborted by an emitter was aborted at a field outside it.
C6_AcceptsExactlyVocabulary ==
    /\ phase \in {"gofmt", "done"} => AllInVocabulary
    /\ (phase = "fatal" /\ ~SomeConstMissing) =>
          /\ diag.why \in {"pack", "unpack"}
          /\ \E fd \in FieldsAfterHeader(diag.name) : fd.name = diag.field /\ ~InVocabulary(fd)

C6_Witness ==
    /\ phase = "done"
    /\ ProbeField.type = Basic("string")
    /\ ProbeField.tag = "dns:\"size-base64:KeySize\""

\* zmsg.go is as it was before the run
FileUntouched == file \in {NoFile, OldFile}

\* C7: zmsg.go is written only by a run that has collected every record type
\* and emitted the pack and the unpack method of each; as long as the run has
\* not finished, and forever when a record type lacks its type-code constant
\* or a field is outside the vocabulary, zmsg.go is as it was before the run.
C7_NoPartialOutput ==
    /\ phase # "done" => FileUntouched
    /\ (SomeConstMissing \/ ~AllInVocabulary) => (phase # "done" /\ FileUntouched)
    /\ phase = "done" =>
          /\ file = [exists |-> TRUE, content |-> b]
          /\ Records = RecordNames
          /\ \A n \in RecordNames :
                /\ HasFunc(b, "pack", n)
                /\ HasFunc(b, "unpack", n)
                /\ BodyOf(b, "pack", n)[Len(BodyOf(b, "pack", n))] = Ret
                /\ BodyOf(b, "unpack", n)[Len(BodyOf(b, "unpack", n))] = Ret

C7_Witness ==
    /\ phase = "fatal"
    /\ diag.why = "unpack"
    /\ file = OldFile
    /\ Len(b) > 2

RECURSIVE IsRRStruct(_, _)
\* the structure of the type is non-empty and its first field is the header,
\* or is anonymous and itself of such a type
IsRRStruct(sc, t) ==
    LET u == Underlying(sc, t)
    IN  /\ u.k = "struct"
        /\ Len(u.fields) > 0
        /\ \/ u.fields[1].type = Named("RR_Header")
           \/ u.fields[1].anonymous /\ IsRRStruct(sc, u.fields[1].type)

HasTypeConst(sc, n) == ("Type" \o n) \in DOMAIN sc

RoundTripDone == xphase = "done" /\ perr = ""

\* C1 as stated: after a successful pack, unpack of the bytes written
\* succeeds and every field after the header equals the original.
C1_RoundTripAllFields ==
    RoundTripDone =>
        /\ uerr = ""
        /\ \A f \in FieldNames(RunStruct(rec)) : rr[f] = orig[f]

\* the read step of field i reads up to the end of the record data
ReadsToEnd(st, i) ==
    /\ ~Ignored(Field(st, i))
    /\ \/ Field(st, i).type = Slice
       \/ Tag(st, i) \in {DnsTag("base32"), DnsTag("base64"), DnsTag("hex"), DnsTag("any")}

\* no field that reads up to the end is followed by a field with a step
ReadToEndIsLast(st) ==
    \A i \in FieldIdx(st) :
        ReadsToEnd(st, i) => \A j \in FieldIdx(st) : j > i => Ignored(Field(st, j))

SentinelGuarded(fd) == HasPrefix(fd.tag, "dns:\"size-hex:SaltLength")

\* C1 amended: for a record type in which no field is packed after a field
\* that reads to the end of the data, after a successful pack, unpack of the
\* bytes written succeeds and every field after the header that is not
\* ignored equals the original, except that a sentinel-guarded field holding
\* "-" comes back as the empty string.
C1_RoundTripEmittedFields ==
    (RoundTripDone /\ ReadToEndIsLast(RunStruct(rec))) =>
        /\ uerr = ""
        /\ \A i \in FieldIdx(RunStruct(rec)) :
              LET fd == Field(RunStruct(rec), i)
              IN  ~Ignored(fd) =>
                     rr[fd.name] = IF SentinelGuarded(fd) /\ orig[fd.name] = Dash
                                   THEN <<>> ELSE orig[fd.name]

C1_Witness ==
    /\ RoundTripDone
    /\ rec = "NSEC3"
    /\ orig["Salt"] = Dash
    /\ orig["NextDomain"] = <<1>>
    /\ orig["TypeBitMap"] = << <<1>> >>
    /\ rr = [orig EXCEPT !["Salt"] = <<>>]

\* the read step of some field after the first read step was invoked with no
\* bytes left: the record data ended exactly after the field before it
EndedAfterAField == \E j \in 2..Len(ucalls) : ucalls[j].left = 0

\* the fields whose read step was reached with no bytes left, and those
\* with a read step that was not reached
AbsentFields ==
    LET reached == {ucalls[j].f : j \in 1..Len(ucalls)}
        nothingLeft == {ucalls[j].f : j \in {q \in 1..Len(ucalls) : ucalls[q].left = 0}}
        emitted == {fd.name : fd \in {x \in {Field(RunStruct(rec), i) : i \in FieldIdx(RunStruct(rec))} : ~Ignored(x)}}
    IN  nothingLeft \cup (emitted \ reached)

\* C3: when the record data ends exactly after a field, unpack returns
\* success and the fields that are absent keep their zero value.
C3_AbsentTrailingFields ==
    (xphase \in {"done", "wdone"} /\ upc = 0 /\ EndedAfterAField) =>
        /\ uerr = ""
        /\ \A f \in AbsentFields : rr[f] = ZeroRecord(RunStruct(rec))[f]

ReadSteps(n) == Steps(UnpackCode(n))

\* every read step of the method was invoked and succeeded
AllFieldsRead ==
    /\ Len(ucalls) = Len(ReadSteps(rec))
    /\ \A j \in 1..Len(ucalls) : ucalls[j].ok

\* C4: the unpack method has exactly one trailing-data check, after the
\* steps of all fields; an unpack that has read all its fields and has bytes
\* left returns errTrailingRData, and no unpack returns success with bytes left.
C4_TrailingData ==
    /\ xphase # "idle" =>
          LET code == UnpackCode(rec)
          IN  /\ Count(code, Trailing) = 1
              /\ code[Len(code) - 1] = Trailing
              /\ code[Len(code)] = Ret
    /\ (xphase \in {"done", "wdone"} /\ (xphase = "done" => perr = "")) =>
          /\ uerr = "" => s = <<>>
          /\ (AllFieldsRead /\ s # <<>>) => uerr = "errTrailingRData"

C4_Witness ==
    /\ xphase = "wdone"
    /\ rec = "Fixed"
    /\ AllFieldsRead
    /\ Len(s) = 1
    /\ uerr = "errTrailingRData"

\* in the calls made so far, only the last may have failed
OnlyLastFailed(calls, failed(_)) ==
    \A j \in 1..(Len(calls) - 1) : ~failed(calls[j])

PackFailed(c) == c.err # ""

UnpackFailed(c) == ~c.ok

\* every step is followed by the check of its error
StepsChecked(code) ==
    \A j \in 1..Len(code) :
        code[j].k \in {"call", "read", "gwread"} => (j < Len(code) /\ code[j + 1] = ErrRet)

\* C10: in both methods every step is followed at once by the check that
\* forwards its error; no primitive is invoked after one that failed, and a
\* method whose primitive failed returns that error, pack with the offset
\* that primitive returned.
C10_FailureForwarded ==
    xphase # "idle" =>
        /\ StepsChecked(PackCode(rec))
        /\ StepsChecked(UnpackCode(rec))
        /\ OnlyLastFailed(pcalls, PackFailed)
        /\ OnlyLastFailed(ucalls, UnpackFailed)
        /\ (ppc = 0 /\ Len(pcalls) > 0 /\ PackFailed(pcalls[Len(pcalls)])) =>
              /\ perr = pcalls[Len(pcalls)].err
              /\ off = pcalls[Len(pcalls)].off
              /\ xphase = "done"
        /\ (ppc = 0 /\ xphase \in {"packed", "unpack"}) => perr = ""
        /\ (xphase \in {"done", "wdone"} /\ Len(ucalls) > 0 /\ UnpackFailed(ucalls[Len(ucalls)])) =>
              uerr \in {"errUnpack", "errUnpackOverflow"}

C10_Witness ==
    /\ xphase = "done"
    /\ rec = "NSEC3"
    /\ perr = "errBuf"
    /\ Len(pcalls) = 2
    /\ Len(Steps(PackCode(rec))) = 5
====
